---- MODULE Spec2Model ----
(***************************************************************************)
(* Model of src/awd_submitter.py: AWDFlagSubmitter.submit_all fans the     *)
(* (flag, target) pairs out over a ThreadPoolExecutor, every pair being    *)
(* run by submit_single with its retry loop, and harvests the futures in   *)
(* submission order.                                                       *)
(***************************************************************************)
EXTENDS Integers, Sequences, FiniteSets, TLC

\* ---------------------------------------------------------------- bounds
MaxFlags == 2
MaxTargets == 2
MaxTasks == 4
MaxWorkers == 2
MaxRetries == 2
MaxLines == 4
MaxData == 4
MaxCalls == 2

\* ------------------------------------------------------ program constants
\* resp.text[:100]
ResponseCut == 100
\* resp.status_code == 200
OkStatus == 200
\* config_data.get('max_workers', 5)
DefaultWorkers == 5
\* config_data.get('max_retries', 2)
DefaultRetries == 2

\* ------------------------------------------------------------ environment
\* A flag is its first 8 characters and the rest of the token.
Flags == {[head |-> "flag{0a1", tail |-> "b2c3"]}

\* Input text is a sequence of symbols: a symbol is a whole token of the
\* shape FLAG_REGEX matches (in lower or in upper case, the pattern has
\* re.I), or one character: a blank, a comma, or a character that is in
\* no flag position ("x").
FlagTokens == Flags \cup {[head |-> "FLAG{9F8", tail |-> "E7D6"]}
Blank == [ch |-> " "]
Comma == [ch |-> ","]
Other == [ch |-> "x"]
Symbols == FlagTokens \cup {Blank, Comma, Other}

\* A configured target: its position in the list, and whether the mapping
\* holds every key submit_single subscripts (ip, port, protocol, path).
TargetOf(n, complete) == [id |-> n, complete |-> complete]

\* What one requests.post call can give back: a response (status code and
\* length of its body) or an exception with a message.
Responses == {[status_code |-> 200, text |-> 2], [status_code |-> 500, text |-> 150]}
ErrMsgs == {"refused", "timeout"}

SeqsUpTo(S, lo, hi) == UNION {[1..n -> S] : n \in lo..hi}

VARIABLES
    flags,        \* argument of submit_all
    targets,      \* self.targets
    max_workers,  \* self.max_workers
    max_retries,  \* self.max_retries
    pc,           \* position of the thread that called submit_all
    fi, ti,       \* loop positions of `for flag in flags: for target in ...`
    futures,      \* the list `futures`, one record per submitted task
    queue,        \* the executor's work queue (indices into futures)
    worker,       \* per pool thread: the task it is running, 0 when idle
    hv,           \* position of `for future in futures`
    results,      \* the list `results`
    ret,          \* value returned by submit_all
    config_data,  \* the mapping load_config returned
    mpc,          \* position of main
    exit_code,    \* exit status of the process, -1 while it runs
    caught,       \* the exception main's except clause caught, if any
    summary,      \* the printed statistics: <<success_count, len(results)>>
    input_file,   \* argument of get_flags
    file,         \* the file at that path
    stdin,        \* sys.stdin
    loaded        \* what the calls of get_flags returned, in order

outer == <<config_data, mpc, exit_code, caught, summary>>

source == <<input_file, file, stdin, loaded>>

vars == <<flags, targets, max_workers, max_retries, pc, fi, ti, futures,
          queue, worker, hv, results, ret, outer, source>>

config == <<flags, targets, max_workers, max_retries>>

Workers == 1..max_workers
TaskIds == 1..Len(futures)

\* ---------------------------------------------------------- pure helpers
\* flag[:8] + '...'
Preview(flag) == <<flag.head, "...">>

\* resp.text[:100]
Truncate(len) == IF len > ResponseCut THEN ResponseCut ELSE len

\* dict.update: the keys of u replace or extend those of d
Update(d, u) == u @@ d

Has(d, k) == k \in DOMAIN d

\* The dict built at the top of submit_single.
InitialResult(target, flag) ==
    [target |-> target.id, flag |-> Preview(flag), success |-> FALSE]

\* A future as executor.submit creates it, with the frame of the
\* submit_single call it will run.
NewFuture(f, t) ==
    [flag |-> f, target |-> t,
     state |-> "pending",        \* pending, running, finished
     raised |-> FALSE,           \* the call ended with an exception
     attempt |-> 0,              \* loop variable of the retry loop
     result |-> << >>,           \* the dict `result`
     posts |-> 0,                \* requests.post calls made
     delays |-> 0,               \* time.sleep(1) calls made
     respAt |-> 0,               \* attempt of the first response, 0 if none
     respStatus |-> 0,           \* status code of the first response
     lastKind |-> "none",        \* outcome of the latest attempt
     lastStatus |-> 0,
     lastMsg |-> "",
     excs |-> 0,                 \* attempts that raised
     starts |-> 0]               \* times a pool thread called submit_single

\* ------------------------------------------------------------- get_flags
\* input_file is None (or empty)
NoFile == ""

\* str.strip(): the blanks at both ends are dropped.
RECURSIVE LStrip(_)
LStrip(text) ==
    IF text # << >> /\ Head(text) = Blank THEN LStrip(Tail(text)) ELSE text

RECURSIVE RStrip(_)
RStrip(text) ==
    IF text # << >> /\ text[Len(text)] = Blank
       THEN RStrip(SubSeq(text, 1, Len(text) - 1))
       ELSE text

Strip(text) == RStrip(LStrip(text))

\* FLAG_REGEX.fullmatch(text): the whole text is one token of the shape.
FullMatch(text) == Len(text) = 1 /\ text[1] \in FlagTokens

validate_flag(flag) == FullMatch(Strip(flag))

\* A text that is one token is that flag.
AsFlag(text) == text[1]

\* [line.strip() for line in f if self._validate_flag(line)]
RECURSIVE ValidLines(_)
ValidLines(lines) ==
    IF lines = << >> THEN << >>
    ELSE IF validate_flag(Head(lines))
            THEN <<AsFlag(Strip(Head(lines)))>> \o ValidLines(Tail(lines))
            ELSE ValidLines(Tail(lines))

\* Variant: the lines read are deduplicated (list(dict.fromkeys(...))).
RECURSIVE Dedup(_)
Dedup(fs) ==
    IF fs = << >> THEN << >>
    ELSE LET rest == Dedup(SubSeq(fs, 1, Len(fs) - 1))
             last == fs[Len(fs)]
         IN IF \E n \in 1..Len(rest) : rest[n] = last
               THEN rest ELSE Append(rest, last)

read_flags_file_dedup(f) ==
    IF f.readable THEN Dedup(ValidLines(f.lines)) ELSE << >>

\* open/read raising anything is caught: logged, and [] returned.
read_flags_file(f) ==
    IF f.readable THEN ValidLines(f.lines) ELSE << >>

IsSep(c) == c = Blank \/ c = Comma

RECURSIVE DropSeps(_)
DropSeps(text) ==
    IF text # << >> /\ IsSep(Head(text)) THEN DropSeps(Tail(text)) ELSE text

\* re.split(r'[,\s]+', text): the pieces between the runs of separators,
\* an empty piece where the text starts or ends with a run.
RECURSIVE SplitFrom(_, _, _)
SplitFrom(text, piece, pieces) ==
    IF text = << >> THEN Append(pieces, piece)
    ELSE IF IsSep(Head(text))
            THEN SplitFrom(DropSeps(text), << >>, Append(pieces, piece))
            ELSE SplitFrom(Tail(text), Append(piece, Head(text)), pieces)

re_split(text) == SplitFrom(text, << >>, << >>)

\* for item in ...: if self._validate_flag(item): flags.append(item)
RECURSIVE ValidItems(_)
ValidItems(items) ==
    IF items = << >> THEN << >>
    ELSE IF validate_flag(Head(items))
            THEN <<AsFlag(Head(items))>> \o ValidItems(Tail(items))
            ELSE ValidItems(Tail(items))

\* Nothing is read from a terminal; sys.stdin.read() takes all that is
\* left in the stream.
read_flags_stdin(sin) ==
    IF sin.tty
       THEN [flags |-> << >>, stdin |-> sin]
       ELSE [flags |-> ValidItems(re_split(Strip(sin.data))),
             stdin |-> [sin EXCEPT !.data = << >>, !.reads = @ + 1]]

\* The file when a path is given and exists, standard input otherwise.
get_flags(path, f, sin) ==
    IF path # NoFile /\ f.exists
       THEN [flags |-> read_flags_file(f), stdin |-> sin]
       ELSE read_flags_stdin(sin)

\* The shapes a line of the flag file takes (without its line end).
Lines ==
    LET a == CHOOSE x \in Flags : TRUE
        b == CHOOSE x \in FlagTokens \ Flags : TRUE
    IN {<<a>>, <<b>>, <<Blank, a, Blank>>, <<a, Other>>, <<Other>>, << >>}

NoSuchFile == [exists |-> FALSE, readable |-> FALSE, lines |-> << >>]
Terminal == [tty |-> TRUE, data |-> << >>, reads |-> 0]
Piped(text) == [tty |-> FALSE, data |-> text, reads |-> 0]

\* What get_flags can find: a path to a file that exists (readable or
\* not), or no usable path and a terminal or a pipe on standard input.
Sources ==
    {[input_file |-> "flags.txt",
      file |-> [exists |-> TRUE, readable |-> r, lines |-> ls],
      stdin |-> sin] :
         r \in BOOLEAN, ls \in SeqsUpTo(Lines, 0, MaxLines),
         sin \in {Terminal,
                  Piped(<<CHOOSE x \in FlagTokens \ Flags : TRUE>>)}}
    \cup
    {[input_file |-> path, file |-> NoSuchFile, stdin |-> sin] :
         path \in {NoFile, "flags.txt"},
         sin \in {Terminal} \cup {Piped(d) : d \in SeqsUpTo(Symbols, 0, MaxData)}}

\* No engine at work.
EngineOff ==
    /\ flags = << >>
    /\ targets = << >>
    /\ max_workers = 0
    /\ max_retries = 0
    /\ pc = "off"
    /\ fi = 1
    /\ ti = 1
    /\ futures = << >>
    /\ queue = << >>
    /\ worker = << >>
    /\ hv = 1
    /\ results = << >>
    /\ ret = << >>

\* No main around the engine.
MainOff ==
    /\ mpc = "none"
    /\ exit_code = -1
    /\ caught = "none"
    /\ summary = << >>

SourceOff ==
    /\ input_file = NoFile
    /\ file = NoSuchFile
    /\ stdin = Terminal
    /\ loaded = << >>

InitFlags ==
    /\ EngineOff
    /\ MainOff
    /\ config_data = << >>
    /\ \E src \in Sources :
           /\ input_file = src.input_file
           /\ file = src.file
           /\ stdin = src.stdin
    /\ loaded = << >>

\* One call of get_flags(input_file) that reads the file.
GetFlagsFromFile ==
    /\ Len(loaded) < MaxCalls
    /\ input_file # NoFile /\ file.exists
    /\ LET got == get_flags(input_file, file, stdin)
       IN /\ loaded' = Append(loaded, got.flags)
          /\ stdin' = got.stdin
    /\ UNCHANGED <<config, outer, pc, fi, ti, futures, queue, worker, hv,
                   results, ret, input_file, file>>

\* One call of get_flags(input_file) that turns to standard input.
GetFlagsFromStdin ==
    /\ Len(loaded) < MaxCalls
    /\ ~(input_file # NoFile /\ file.exists)
    /\ LET got == get_flags(input_file, file, stdin)
       IN /\ loaded' = Append(loaded, got.flags)
          /\ stdin' = got.stdin
    /\ UNCHANGED <<config, outer, pc, fi, ti, futures, queue, worker, hv,
                   results, ret, input_file, file>>

NextFlags == GetFlagsFromFile \/ GetFlagsFromStdin

SpecFlags == InitFlags /\ [][NextFlags]_vars

\* ------------------------------------------------------------------ Init
Init ==
    /\ flags \in SeqsUpTo(Flags, 0, MaxFlags)
    /\ \E m \in 1..MaxTargets : \E c \in [1..m -> BOOLEAN] :
           targets = [n \in 1..m |-> TargetOf(n, c[n])]
    /\ Len(flags) * Len(targets) <= MaxTasks
    /\ max_workers \in 1..MaxWorkers
    /\ max_retries \in -1..MaxRetries
    /\ pc = "start"
    /\ fi = 1
    /\ ti = 1
    /\ futures = << >>
    /\ queue = << >>
    /\ worker = [w \in 1..max_workers |-> 0]
    /\ hv = 1
    /\ results = << >>
    /\ ret = << >>
    /\ config_data = [targets |-> targets, max_workers |-> max_workers,
                      max_retries |-> max_retries]
    /\ MainOff
    /\ SourceOff

\* ------------------------------------------------------------ submit_all
\* Variant: no early return, the empty list goes through the pool code.
ReturnEmptyMissing ==
    /\ pc = "start"
    /\ flags = << >>
    /\ pc' = "harvesting"
    /\ UNCHANGED <<config, outer, source, fi, ti, futures, queue, worker, hv, results, ret>>

\* `if not flags: return []`
ReturnEmpty ==
    /\ pc = "start"
    /\ flags = << >>
    /\ pc' = "returned"
    /\ ret' = << >>
    /\ UNCHANGED <<config, outer, source, fi, ti, futures, queue, worker, hv, results>>

\* Non-empty flags: log the plan, results = [], enter the pool.
EnterPool ==
    /\ pc = "start"
    /\ flags # << >>
    /\ pc' = "submitting"
    /\ UNCHANGED <<config, outer, source, fi, ti, futures, queue, worker, hv, results, ret>>

\* Variant: the loops are nested the other way round
\* (for target in self.targets: for flag in flags).
SubmitTaskTargetMajor ==
    /\ pc = "submitting"
    /\ ti <= Len(targets)
    /\ futures' = Append(futures, NewFuture(fi, ti))
    /\ queue' = Append(queue, Len(futures) + 1)
    /\ IF fi < Len(flags)
          THEN /\ fi' = fi + 1
               /\ ti' = ti
          ELSE /\ fi' = 1
               /\ ti' = ti + 1
    /\ pc' = IF ti' > Len(targets) THEN "harvesting" ELSE "submitting"
    /\ UNCHANGED <<config, outer, source, worker, hv, results, ret>>

\* One executor.submit(self.submit_single, target, flag) of the nested loops.
SubmitTask ==
    /\ pc = "submitting"
    /\ fi <= Len(flags)
    /\ futures' = Append(futures, NewFuture(fi, ti))
    /\ queue' = Append(queue, Len(futures) + 1)
    /\ IF ti < Len(targets)
          THEN /\ ti' = ti + 1
               /\ fi' = fi
          ELSE /\ ti' = 1
               /\ fi' = fi + 1
    /\ pc' = IF fi' > Len(flags) THEN "harvesting" ELSE "submitting"
    /\ UNCHANGED <<config, outer, source, worker, hv, results, ret>>

\* --------------------------------------------------------- submit_single
\* Variant: the loop runs one value too far, range(1, max_retries + 2).
LoopHasNextOffByOne(attempt) == attempt <= max_retries

\* range(1, self.max_retries + 1) has a value after `attempt`
LoopHasNext(attempt) == attempt < max_retries

\* Variant: success is `resp.status_code >= 200`.
ResultOnResponseAtLeast200(fut, r) ==
    Update(fut.result, [status_code |-> r.status_code,
                        response |-> Truncate(r.text),
                        attempt |-> fut.attempt,
                        success |-> (r.status_code >= OkStatus)])

\* Variant: a response clears the error left by an earlier attempt
\* (result.pop('error', None) before the update).
ResultOnResponseClearsError(fut, r) ==
    Update([k \in DOMAIN fut.result \ {"error"} |-> fut.result[k]],
           [status_code |-> r.status_code,
            response |-> Truncate(r.text),
            attempt |-> fut.attempt,
            success |-> (r.status_code = OkStatus)])

\* result.update({'status_code': ..., 'response': ..., 'attempt': ...,
\*                'success': resp.status_code == 200})
ResultOnResponse(fut, r) ==
    Update(fut.result, [status_code |-> r.status_code,
                        response |-> Truncate(r.text),
                        attempt |-> fut.attempt,
                        success |-> (r.status_code = OkStatus)])

\* Variant: the break is taken on a 200 only, any other status goes on to
\* the next attempt.
OnResponseRetriesNon200(fut, r) ==
    LET again == r.status_code # OkStatus /\ LoopHasNext(fut.attempt) IN
    [fut EXCEPT
        !.result = ResultOnResponse(fut, r),
        !.state = IF again THEN "running" ELSE "finished",
        !.attempt = IF again THEN @ + 1 ELSE @,
        !.posts = @ + 1,
        !.respAt = IF @ = 0 THEN fut.attempt ELSE @,
        !.respStatus = IF fut.respAt = 0 THEN r.status_code ELSE @,
        !.lastKind = "resp",
        !.lastStatus = r.status_code]

\* The try body succeeded: result.update({...}) and break, then the call
\* logs and returns the dict.
OnResponse(fut, r) ==
    [fut EXCEPT
        !.result = ResultOnResponse(fut, r),
        !.state = "finished",
        !.posts = @ + 1,
        !.respAt = IF @ = 0 THEN fut.attempt ELSE @,
        !.respStatus = IF fut.respAt = 0 THEN r.status_code ELSE @,
        !.lastKind = "resp",
        !.lastStatus = r.status_code]

\* Variant: the error of the first failed attempt is kept
\* (result.setdefault('error', str(e))).
OnExceptionKeepsFirstError(fut, msg) ==
    [fut EXCEPT
        !.result = IF Has(@, "error") THEN @ ELSE Update(@, [error |-> msg]),
        !.delays = @ + 1,
        !.attempt = IF LoopHasNext(@) THEN @ + 1 ELSE @,
        !.state = IF LoopHasNext(fut.attempt) THEN "running" ELSE "finished",
        !.posts = @ + 1,
        !.lastKind = "exc",
        !.lastMsg = msg,
        !.excs = @ + 1]

\* The except clause: result['error'] = str(e); time.sleep(1); then the
\* loop goes on to its next value or ends, and the call returns the dict.
OnException(fut, msg) ==
    [fut EXCEPT
        !.result = Update(@, [error |-> msg]),
        !.delays = @ + 1,
        !.attempt = IF LoopHasNext(@) THEN @ + 1 ELSE @,
        !.state = IF LoopHasNext(fut.attempt) THEN "running" ELSE "finished",
        !.posts = @ + 1,
        !.lastKind = "exc",
        !.lastMsg = msg,
        !.excs = @ + 1]

\* Variant: the loop body runs once whatever max_retries is (a do-while).
OnCallAtLeastOnce(fut) ==
    IF ~targets[fut.target].complete
       THEN [fut EXCEPT !.state = "finished", !.raised = TRUE,
                        !.starts = @ + 1]
       ELSE [fut EXCEPT !.state = "running", !.attempt = 1,
                        !.starts = @ + 1,
                        !.result = InitialResult(targets[fut.target],
                                                 flags[fut.flag])]

\* Lines 114-123: the dict and the URL are built from the target's keys
\* (a missing key raises KeyError out of the call), then the loop starts.
OnCall(fut) ==
    IF ~targets[fut.target].complete
       THEN [fut EXCEPT !.state = "finished", !.raised = TRUE,
                        !.starts = @ + 1]
       ELSE IF max_retries >= 1
               THEN [fut EXCEPT !.state = "running", !.attempt = 1,
                        !.starts = @ + 1,
                        !.result = InitialResult(targets[fut.target],
                                                 flags[fut.flag])]
               ELSE [fut EXCEPT !.state = "finished",
                        !.starts = @ + 1,
                        !.result = InitialResult(targets[fut.target],
                                                 flags[fut.flag])]

\* The thread a finished call leaves goes back to the queue.
Holds(fut, t) == IF fut.state = "running" THEN t ELSE 0

\* Variant: a thread takes a work item while its current call is not over
\* (no bound on the calls in flight).
StartTaskWhileBusy(w) ==
    /\ queue # << >>
    /\ LET t == Head(queue)
           fut == OnCall(futures[t])
       IN /\ futures' = [futures EXCEPT ![t] = fut]
          /\ worker' = [worker EXCEPT ![w] = Holds(fut, t)]
    /\ queue' = Tail(queue)
    /\ UNCHANGED <<config, outer, source, pc, fi, ti, hv, results, ret>>

\* Variant: the work item is read but left in the queue.
StartTaskLeavesItem(w) ==
    /\ worker[w] = 0
    /\ queue # << >>
    /\ LET t == Head(queue)
           fut == OnCall(futures[t])
       IN /\ futures' = [futures EXCEPT ![t] = fut]
          /\ worker' = [worker EXCEPT ![w] = Holds(fut, t)]
    /\ queue' = queue
    /\ UNCHANGED <<config, outer, source, pc, fi, ti, hv, results, ret>>

\* A pool thread with nothing to do takes the oldest queued work item and
\* calls submit_single(target, flag).
StartTask(w) ==
    /\ worker[w] = 0
    /\ queue # << >>
    /\ LET t == Head(queue)
           fut == OnCall(futures[t])
       IN /\ futures' = [futures EXCEPT ![t] = fut]
          /\ worker' = [worker EXCEPT ![w] = Holds(fut, t)]
    /\ queue' = Tail(queue)
    /\ UNCHANGED <<config, outer, source, pc, fi, ti, hv, results, ret>>

\* The requests.post of the current attempt returns a response.
PostResponds(w) ==
    /\ worker[w] # 0
    /\ \E r \in Responses :
         LET t == worker[w]
             fut == OnResponse(futures[t], r)
         IN /\ futures' = [futures EXCEPT ![t] = fut]
            /\ worker' = [worker EXCEPT ![w] = Holds(fut, t)]
    /\ UNCHANGED <<config, outer, source, pc, fi, ti, queue, hv, results, ret>>

\* The requests.post of the current attempt raises.
PostRaises(w) ==
    /\ worker[w] # 0
    /\ \E msg \in ErrMsgs :
         LET t == worker[w]
             fut == OnException(futures[t], msg)
         IN /\ futures' = [futures EXCEPT ![t] = fut]
            /\ worker' = [worker EXCEPT ![w] = Holds(fut, t)]
    /\ UNCHANGED <<config, outer, source, pc, fi, ti, queue, hv, results, ret>>

\* ------------------------------------------------- submit_all, harvesting
\* Variant: only successful results are appended.
HarvestResultOnlySuccess ==
    /\ pc = "harvesting"
    /\ hv <= Len(futures)
    /\ futures[hv].state = "finished"
    /\ ~futures[hv].raised
    /\ results' = IF futures[hv].result.success
                     THEN Append(results, futures[hv].result)
                     ELSE results
    /\ hv' = hv + 1
    /\ UNCHANGED <<config, outer, source, pc, fi, ti, futures, queue, worker, ret>>

\* results.append(future.result()) for a call that returned.
HarvestResult ==
    /\ pc = "harvesting"
    /\ hv <= Len(futures)
    /\ futures[hv].state = "finished"
    /\ ~futures[hv].raised
    /\ results' = Append(results, futures[hv].result)
    /\ hv' = hv + 1
    /\ UNCHANGED <<config, outer, source, pc, fi, ti, futures, queue, worker, ret>>

\* Variant: no try/except around future.result(): the exception leaves
\* submit_all.
HarvestExceptionPropagates ==
    /\ pc = "harvesting"
    /\ hv <= Len(futures)
    /\ futures[hv].state = "finished"
    /\ futures[hv].raised
    /\ pc' = "raised"
    /\ UNCHANGED <<config, outer, source, hv, fi, ti, futures, queue, worker, results, ret>>

\* future.result() re-raises the call's exception: caught and logged.
HarvestException ==
    /\ pc = "harvesting"
    /\ hv <= Len(futures)
    /\ futures[hv].state = "finished"
    /\ futures[hv].raised
    /\ hv' = hv + 1
    /\ UNCHANGED <<config, outer, source, pc, fi, ti, futures, queue, worker, results, ret>>

\* sum(1 for r in results if r['success'])
RECURSIVE SuccessCount(_)
SuccessCount(rs) ==
    IF rs = << >> THEN 0
    ELSE (IF Head(rs).success THEN 1 ELSE 0) + SuccessCount(Tail(rs))

\* The loop and the with block are over; the rate is computed and logged,
\* and the list is returned.
ReturnResults ==
    /\ pc = "harvesting"
    /\ hv > Len(futures)
    /\ Len(results) # 0
    /\ (SuccessCount(results) * 100) \div Len(results) \in 0..100
    /\ pc' = "returned"
    /\ ret' = results
    /\ UNCHANGED <<config, outer, source, fi, ti, futures, queue, worker, hv, results>>

\* ... / len(results) with an empty list: ZeroDivisionError leaves submit_all.
RaiseZeroDivision ==
    /\ pc = "harvesting"
    /\ hv > Len(futures)
    /\ Len(results) = 0
    /\ pc' = "raised"
    /\ UNCHANGED <<config, outer, source, fi, ti, futures, queue, worker, hv, results, ret>>

Next ==
    \/ ReturnEmpty
    \/ EnterPool
    \/ SubmitTask
    \/ \E w \in Workers : StartTask(w)
    \/ \E w \in Workers : PostResponds(w)
    \/ \E w \in Workers : PostRaises(w)
    \/ HarvestResult
    \/ HarvestException
    \/ ReturnResults
    \/ RaiseZeroDivision

Spec == Init /\ [][Next]_vars

\* The thread that called submit_all, and pool thread w.
MainStep ==
    \/ ReturnEmpty
    \/ EnterPool
    \/ SubmitTask
    \/ HarvestResult
    \/ HarvestException
    \/ ReturnResults
    \/ RaiseZeroDivision

WorkerStep(w) ==
    /\ w \in Workers
    /\ (StartTask(w) \/ PostResponds(w) \/ PostRaises(w))

\* Every thread that can take a step eventually takes one: the threads are
\* scheduled, and every requests.post ends (response, or an exception at
\* the latest when its timeout expires).
FairSpec ==
    /\ Spec
    /\ WF_vars(MainStep)
    /\ \A w \in 1..MaxWorkers : WF_vars(WorkerStep(w))

\* ------------------------------------------------------------------ main
\* dict.get(key, default)
Get(d, k, default) == IF k \in DOMAIN d THEN d[k] ELSE default

TargetLists ==
    UNION {{[n \in 1..m |-> TargetOf(n, c[n])] : c \in [1..m -> BOOLEAN]} :
              m \in 1..MaxTargets}

\* What load_config can return: a mapping with or without a targets key,
\* the list under it empty or not.
Configs ==
    {[max_workers |-> w, max_retries |-> r] :
         w \in 1..MaxWorkers, r \in -1..MaxRetries}
    \cup
    {[targets |-> ts, max_workers |-> w, max_retries |-> r] :
         ts \in TargetLists \cup {<< >>},
         w \in 1..MaxWorkers, r \in -1..MaxRetries}

\* Variant: only the presence of the key is looked at
\* (`if 'targets' not in config_data`).
NoTargetsKeyOnly(cfg) == "targets" \notin DOMAIN cfg

\* `if not self.targets`, self.targets being config_data.get('targets', [])
NoTargets(cfg) == Get(cfg, "targets", << >>) = << >>

InitMain ==
    /\ config_data \in Configs
    /\ mpc = "start"
    /\ exit_code = -1
    /\ caught = "none"
    /\ summary = << >>
    /\ EngineOff
    /\ SourceOff

\* config = load_config(...); submitter = AWDFlagSubmitter(config): the
\* constructor raises ValueError without targets, which main's except
\* clause turns into sys.exit(1).
MainConstruct ==
    /\ mpc = "start"
    /\ IF NoTargets(config_data)
          THEN /\ mpc' = "exited"
               /\ exit_code' = 1
               /\ caught' = "ValueError"
               /\ UNCHANGED <<targets, max_workers, max_retries>>
          ELSE /\ targets' = Get(config_data, "targets", << >>)
               /\ max_workers' = Get(config_data, "max_workers", DefaultWorkers)
               /\ max_retries' = Get(config_data, "max_retries", DefaultRetries)
               /\ mpc' = "get_flags"
               /\ UNCHANGED <<exit_code, caught>>
    /\ UNCHANGED <<config_data, summary, source, flags, pc, fi, ti, futures,
                   queue, worker, hv, results, ret>>

\* The lists get_flags can return, over the files and standard inputs of
\* Sources.
Obtained ==
    {get_flags(src.input_file, src.file, src.stdin).flags : src \in Sources}

\* flags = submitter.get_flags(args.input_file), on whatever the file and
\* standard input hold at that moment; without flags main returns, with
\* flags it calls submit_all (the pool's threads are idle).
MainGetFlags ==
    /\ mpc = "get_flags"
    /\ \E got \in Obtained :
         /\ got \in SeqsUpTo(Flags, 0, MaxFlags)
         /\ Len(got) * Len(targets) <= MaxTasks
         /\ flags' = got
         /\ IF got = << >>
               THEN /\ mpc' = "exited"
                    /\ exit_code' = 0
                    /\ UNCHANGED <<pc, worker>>
               ELSE /\ mpc' = "submit_all"
                    /\ pc' = "start"
                    /\ worker' = [w \in 1..max_workers |-> 0]
                    /\ UNCHANGED exit_code
    /\ UNCHANGED <<config_data, caught, summary, source, targets, max_workers,
                   max_retries, fi, ti, futures, queue, hv, results, ret>>

\* Variant: the process reports a run without any success as a failure
\* (sys.exit(0 if success_count else 1)).
MainReportFailsWithoutSuccess ==
    /\ mpc = "submit_all"
    /\ pc = "returned"
    /\ mpc' = "exited"
    /\ IF Len(ret) = 0
          THEN /\ caught' = "ZeroDivisionError"
               /\ exit_code' = 1
               /\ UNCHANGED summary
          ELSE /\ summary' = <<SuccessCount(ret), Len(ret)>>
               /\ exit_code' = IF SuccessCount(ret) = 0 THEN 1 ELSE 0
               /\ UNCHANGED caught
    /\ UNCHANGED <<config, config_data, source, pc, fi, ti, futures, queue,
                   worker, hv, results, ret>>

\* submit_all returned; the results are written when --output is given
\* (and that works), the statistics are printed, main ends.
MainReport ==
    /\ mpc = "submit_all"
    /\ pc = "returned"
    /\ mpc' = "exited"
    /\ IF Len(ret) = 0
          THEN /\ caught' = "ZeroDivisionError"
               /\ exit_code' = 1
               /\ UNCHANGED summary
          ELSE /\ summary' = <<SuccessCount(ret), Len(ret)>>
               /\ exit_code' = 0
               /\ UNCHANGED caught
    /\ UNCHANGED <<config, config_data, source, pc, fi, ti, futures, queue,
                   worker, hv, results, ret>>

\* submit_all returned and open(args.output, 'w') or json.dump raises.
MainOutputFails ==
    /\ mpc = "submit_all"
    /\ pc = "returned"
    /\ mpc' = "exited"
    /\ caught' = "OSError"
    /\ exit_code' = 1
    /\ UNCHANGED <<config, config_data, summary, source, pc, fi, ti, futures,
                   queue, worker, hv, results, ret>>

\* The exception that left submit_all reaches main's except clause.
MainSubmitRaised ==
    /\ mpc = "submit_all"
    /\ pc = "raised"
    /\ mpc' = "exited"
    /\ caught' = "ZeroDivisionError"
    /\ exit_code' = 1
    /\ UNCHANGED <<config, config_data, summary, source, pc, fi, ti, futures,
                   queue, worker, hv, results, ret>>

\* main never calls submit_all with an empty list, so its early return is
\* no step of a run of main.
NextMain ==
    \/ MainConstruct
    \/ MainGetFlags
    \/ EnterPool
    \/ SubmitTask
    \/ \E w \in DOMAIN worker : StartTask(w)
    \/ \E w \in DOMAIN worker : PostResponds(w)
    \/ \E w \in DOMAIN worker : PostRaises(w)
    \/ HarvestResult
    \/ HarvestException
    \/ ReturnResults
    \/ RaiseZeroDivision
    \/ MainReport
    \/ MainOutputFails
    \/ MainSubmitRaised

SpecMain == InitMain /\ [][NextMain]_vars

\* ------------------------------------------------------ derived notions
Done(t) == futures[t].state = "finished"

\* The call of task t returned its dict (no exception left it).
Returned(t) == Done(t) /\ ~futures[t].raised

\* The call returned and none of its attempts got a response.
AllAttemptsFailed(t) == Returned(t) /\ futures[t].respAt = 0

Running == {t \in TaskIds : futures[t].state = "running"}

total_submissions == Len(flags) * Len(targets)

\* Number of calls among the first k that returned a dict.
Kept(k) == Cardinality({t \in 1..k : ~futures[t].raised})

InQueue(t) == \E n \in 1..Len(queue) : queue[n] = t

\* ------------------------------------------------------------------ C1
\* C1: with max_retries >= 1 no task ever makes more than max_retries POST
\* attempts, and a task whose every attempt raised has made exactly
\* max_retries of them and returns success = false.
C1_RetryBound ==
    max_retries >= 1 =>
        \A t \in TaskIds :
            /\ futures[t].posts <= max_retries
            /\ AllAttemptsFailed(t) =>
                   /\ futures[t].posts = max_retries
                   /\ futures[t].result.success = FALSE

C1_Witness ==
    \E t \in TaskIds :
        /\ max_retries = MaxRetries
        /\ AllAttemptsFailed(t)
        /\ futures[t].lastKind = "exc"
        /\ futures[t].posts = MaxRetries

\* ------------------------------------------------------------------ C2
\* C2: for N >= 1 flags and M targets the sequence submit_all returns has
\* at most N*M entries, and exactly N*M when no call raised.
C2_ResultCount ==
    (pc = "returned" /\ flags # << >>) =>
        /\ Len(ret) <= total_submissions
        /\ (\A t \in TaskIds : ~futures[t].raised) => Len(ret) = total_submissions

C2_Witness ==
    /\ pc = "returned"
    /\ Len(flags) = 2
    /\ Len(targets) = 2
    /\ max_workers = 2
    /\ Len(ret) = 4
    /\ \E t \in TaskIds : futures[t].lastKind = "exc"

\* ------------------------------------------------------------------ C3
\* C3: a task makes no attempt after one that received a response, whatever
\* the status code: if the first response came on attempt k, the task made
\* k attempts and its result has attempt = k and that response's status
\* code; with max_retries = 2 and a 500 on the first attempt the result is
\* success = false, attempt = 1, status_code = 500.
C3_NoRetryAfterResponse ==
    \A t \in TaskIds :
        LET f == futures[t] IN
        f.respAt > 0 =>
            /\ Returned(t)
            /\ f.posts = f.respAt
            /\ f.result.attempt = f.respAt
            /\ f.result.status_code = f.respStatus
            /\ (max_retries = 2 /\ f.respAt = 1 /\ f.respStatus = 500) =>
                   /\ f.result.success = FALSE
                   /\ f.result.attempt = 1
                   /\ f.result.status_code = 500

C3_Witness ==
    \E t \in TaskIds :
        /\ max_retries = 2
        /\ Returned(t)
        /\ futures[t].respAt = 1
        /\ futures[t].respStatus = 500
        /\ futures[t].posts = 1

\* ------------------------------------------------------------------ C4
\* C4: a returned result has success = true exactly when the task's last
\* attempt received a response with status 200, however many attempts
\* failed before; a 200 on the first attempt gives success = true after
\* one attempt.
C4_SuccessIff200 ==
    \A t \in TaskIds :
        LET f == futures[t] IN
        Returned(t) =>
            /\ f.result.success = (f.lastKind = "resp" /\ f.lastStatus = 200)
            /\ (f.respAt = 1 /\ f.respStatus = 200) =>
                   (f.result.success /\ f.posts = 1)

C4_Witness ==
    \E t \in TaskIds :
        /\ Returned(t)
        /\ futures[t].posts = 2
        /\ futures[t].lastKind = "resp"
        /\ futures[t].lastStatus = 200
        /\ futures[t].result.success

\* ------------------------------------------------------------------ C5
\* C5: the result of a task whose every attempt raised has an attempt
\* field equal to the number of attempts made (= max_retries).
C5_AttemptRecorded ==
    max_retries >= 1 =>
        \A t \in TaskIds :
            AllAttemptsFailed(t) =>
                /\ Has(futures[t].result, "attempt")
                /\ futures[t].result.attempt = futures[t].posts

\* ------------------------------------------------------------------ C6
\* C6: the result of a task whose every attempt raised has success =
\* false, an error field holding the message of the last failed attempt,
\* and no status_code field.
C6_LastError ==
    max_retries >= 1 =>
        \A t \in TaskIds :
            AllAttemptsFailed(t) =>
                /\ futures[t].result.success = FALSE
                /\ Has(futures[t].result, "error")
                /\ futures[t].result.error = futures[t].lastMsg
                /\ ~Has(futures[t].result, "status_code")

C6_Witness ==
    \E t \in TaskIds :
        /\ max_retries = 2
        /\ AllAttemptsFailed(t)
        /\ futures[t].posts = 2
        /\ futures[t].result.error = "timeout"

\* ------------------------------------------------------------------ C7
\* C7: the success-rate computation never raises: a run whose harvested
\* results are empty still returns (the empty sequence).
C7_RateNeverRaises ==
    (flags # << >> /\ pc \notin {"start", "submitting"}
         /\ hv > Len(futures) /\ results = << >>) =>
        pc # "raised"

\* ------------------------------------------------------------------ C8
\* C8: a call that raised contributes no entry, and it keeps no other
\* planned task from being executed nor its result from being in the
\* sequence submit_all returns.
C8_OthersUnaffected ==
    /\ pc = "harvesting" => Len(results) = Kept(hv - 1)
    /\ (pc \in {"returned", "raised"} /\ flags # << >>) =>
           /\ Len(futures) = total_submissions
           /\ \A t \in TaskIds :
                  /\ Done(t)
                  /\ ~futures[t].raised =>
                         /\ pc = "returned"
                         /\ Len(ret) = Kept(Len(futures))
                         /\ ret[Kept(t)] = futures[t].result
                         /\ max_retries >= 1 => futures[t].posts >= 1

C8_Witness ==
    /\ pc = "returned"
    /\ \E t, u \in TaskIds :
           /\ t < u
           /\ futures[t].raised
           /\ Returned(u)
           /\ ret[Kept(u)] = futures[u].result

\* ------------------------------------------------------------------ C9
\* C9: at most max_workers tasks are being executed at any time; a task
\* in flight is on a pool thread, which keeps it until its call is over,
\* and the tasks in the queue have not started.
C9_BoundedConcurrency ==
    /\ Cardinality(Running) <= max_workers
    /\ \A t \in Running : \E w \in Workers : worker[w] = t
    /\ \A w \in Workers : worker[w] # 0 => worker[w] \in Running
    /\ \A t \in TaskIds :
           InQueue(t) => (futures[t].state = "pending" /\ futures[t].posts = 0)

C9_Witness ==
    /\ max_workers = 2
    /\ Cardinality(Running) = 2
    /\ queue # << >>
    /\ \E t \in Running : futures[t].attempt = 2

\* ----------------------------------------------------------------- C10
\* C10: with an empty flag sequence submit_all returns the empty sequence
\* at once: nothing is submitted, no thread works, no request is made.
C10_EmptyFlags ==
    flags = << >> =>
        /\ pc \in {"start", "returned"}
        /\ futures = << >>
        /\ queue = << >>
        /\ \A w \in Workers : worker[w] = 0
        /\ results = << >>
        /\ ret = << >>

C10_Witness ==
    /\ flags = << >>
    /\ Len(targets) = 2
    /\ pc = "returned"
    /\ ret = << >>

\* ----------------------------------------------------------------- C12
\* C12: under fair scheduling, with every attempt ending, submit_all
\* eventually returns, and it has returned only when all N*M planned
\* tasks are over.
C12_RunsToCompletion ==
    /\ <>(pc = "returned")
    /\ [](pc = "returned" =>
             (flags # << >> =>
                 /\ Len(futures) = total_submissions
                 /\ \A t \in TaskIds : Done(t)))

\* ----------------------------------------------------------------- C16
\* C16: a task never waits after its final attempt: a task whose
\* max_retries attempts all raised has waited max_retries - 1 times.
C16_DelayOnlyBetweenAttempts ==
    max_retries >= 1 =>
        \A t \in TaskIds :
            AllAttemptsFailed(t) => futures[t].delays = max_retries - 1

\* ----------------------------------------------------------------- C17
\* C17: every (flag occurrence, target) pair is one task, called once by
\* one pool thread: no task is called twice or skipped, no two threads
\* hold the same task, and the run leaves flags and targets as they were.
C17_Pairs ==
    /\ \A t \in TaskIds :
           /\ futures[t].flag \in 1..Len(flags)
           /\ futures[t].target \in 1..Len(targets)
           /\ \A u \in TaskIds :
                  (futures[u].flag = futures[t].flag
                       /\ futures[u].target = futures[t].target) => u = t
    /\ (pc \in {"harvesting", "returned", "raised"} /\ flags # << >>) =>
           Len(futures) = total_submissions

C17_Once ==
    /\ \A t \in TaskIds :
           /\ futures[t].starts <= 1
           /\ (futures[t].state # "pending") = (futures[t].starts = 1)
           /\ InQueue(t) = (futures[t].starts = 0)
    /\ \A w, x \in Workers :
           (worker[w] # 0 /\ worker[w] = worker[x]) => w = x
    /\ (pc \in {"returned", "raised"} /\ flags # << >>) =>
           \A t \in TaskIds : Done(t) /\ futures[t].starts = 1

C17_ExactlyOnce ==
    /\ [](C17_Pairs /\ C17_Once)
    /\ [][flags' = flags /\ targets' = targets]_vars

C17_Witness ==
    /\ pc = "returned"
    /\ max_workers = 2
    /\ Len(futures) = 4
    /\ \A t \in TaskIds : futures[t].starts = 1 /\ futures[t].posts >= 1

\* ----------------------------------------------------------------- C18
\* C18: the results are in submission order, flag-major then
\* target-minor, whatever order the calls end in: the list holds the dicts
\* of the harvested calls that returned, in the order of `futures`, and
\* only the harvesting loop appends to it; with no call raised, entry
\* (i-1)*M + j of the returned sequence is the dict of flag i and target j.
C18_Prefix ==
    /\ Len(results) = Kept(hv - 1)
    /\ \A t \in 1..(hv - 1) :
           ~futures[t].raised => results[Kept(t)] = futures[t].result

C18_FlagMajor ==
    (pc = "returned" /\ flags # << >> /\ \A t \in TaskIds : ~futures[t].raised) =>
        \A i \in 1..Len(flags) : \A j \in 1..Len(targets) :
            LET k == (i - 1) * Len(targets) + j IN
            /\ k <= Len(ret)
            /\ futures[k].flag = i
            /\ futures[k].target = j
            /\ ret[k] = futures[k].result
            /\ ret[k].target = targets[j].id
            /\ ret[k].flag = Preview(flags[i])

C18_SubmissionOrder ==
    /\ [](C18_Prefix /\ C18_FlagMajor)
    /\ [][results' # results =>
              /\ pc = "harvesting"
              /\ hv' = hv + 1
              /\ results' = Append(results, futures[hv].result)
              /\ futures' = futures
              /\ worker' = worker]_vars

\* Task 3 is over while task 2, submitted before it, is still running:
\* the list holds the dict of task 1 alone and waits for task 2.
C18_Witness ==
    /\ pc = "harvesting"
    /\ Len(futures) = 4
    /\ hv = 2
    /\ Returned(1)
    /\ futures[2].state = "running"
    /\ Returned(3)
    /\ results = <<futures[1].result>>

\* ----------------------------------------------------------------- C19
\* C19: a result has an error field exactly when an attempt of the task
\* raised, holding the message of the latest such attempt; a later
\* response does not clear it.
C19_ErrorIffRaised ==
    \A t \in TaskIds :
        LET f == futures[t] IN
        (f.starts = 1 /\ ~f.raised) =>
            /\ Has(f.result, "error") = (f.excs >= 1)
            /\ Has(f.result, "error") => f.result.error = f.lastMsg

C19_Witness ==
    \E t \in TaskIds :
        /\ Returned(t)
        /\ futures[t].result.success
        /\ Has(futures[t].result, "status_code")
        /\ Has(futures[t].result, "error")
        /\ futures[t].excs = 1

\* ----------------------------------------------------------------- C20
\* C20 as stated: with max_retries <= 0 no request is made and the
\* sequence submit_all returns has N*M entries, each with success = false
\* and no status_code, attempt or error.
C20_AlwaysAllResults ==
    (max_retries <= 0 /\ flags # << >> /\ pc = "returned") =>
        /\ \A t \in TaskIds : futures[t].posts = 0
        /\ Len(ret) = total_submissions
        /\ \A k \in 1..Len(ret) :
               /\ ret[k].success = FALSE
               /\ DOMAIN ret[k] = {"target", "flag", "success"}

\* C20 as amended: with max_retries <= 0 no request is made for any task;
\* every call that does not raise returns success = false with no
\* status_code, attempt or error, and the sequence submit_all returns holds
\* exactly those dicts: N*M of them when no call raised.
C20_NoAttempts ==
    max_retries <= 0 =>
        /\ \A t \in TaskIds :
               /\ futures[t].posts = 0
               /\ futures[t].state # "running"
               /\ Returned(t) =>
                      /\ futures[t].result.success = FALSE
                      /\ DOMAIN futures[t].result = {"target", "flag", "success"}
        /\ (flags # << >> /\ pc = "returned") =>
               /\ Len(ret) = Kept(Len(futures))
               /\ Len(futures) = total_submissions
               /\ (\A t \in TaskIds : ~futures[t].raised) =>
                      Len(ret) = total_submissions
               /\ \A k \in 1..Len(ret) :
                      /\ ret[k].success = FALSE
                      /\ DOMAIN ret[k] = {"target", "flag", "success"}

C20_Witness ==
    /\ max_retries <= 0
    /\ pc = "returned"
    /\ Len(flags) = 2
    /\ Len(targets) = 2
    /\ Len(ret) = 4
    /\ \A t \in TaskIds : futures[t].posts = 0

\* ----------------------------------------------------------------- C14
\* C14: a call of get_flags on a path that exists and reads well returns
\* the lines that pass the validator (stripped), in file order and with
\* repeats kept, and skips the others; when reading the file fails it
\* returns the empty sequence; standard input is not read either way.
ValidLineNos == {n \in 1..Len(file.lines) : validate_flag(file.lines[n])}

\* The k-th line of the file that passes the validator.
KthValid(k) ==
    CHOOSE n \in ValidLineNos : Cardinality({m \in ValidLineNos : m <= n}) = k

C14_FileFlags ==
    (input_file # NoFile /\ file.exists) =>
        /\ stdin.reads = 0
        /\ \A c \in 1..Len(loaded) :
               IF file.readable
                  THEN /\ Len(loaded[c]) = Cardinality(ValidLineNos)
                       /\ \A k \in 1..Len(loaded[c]) :
                              /\ loaded[c][k] \in FlagTokens
                              /\ <<loaded[c][k]>> = Strip(file.lines[KthValid(k)])
                  ELSE loaded[c] = << >>

C14_Witness ==
    /\ input_file # NoFile
    /\ file.exists
    /\ file.readable
    /\ stdin.tty = FALSE
    /\ Len(loaded) >= 1
    /\ Len(file.lines) = 4
    /\ Len(loaded[1]) = 3
    /\ loaded[1][1] # loaded[1][2]
    /\ loaded[1][2] = loaded[1][3]

\* ----------------------------------------------------------------- C15
\* C15: two calls of get_flags in a row, with the same argument and the
\* same file or the same piped input, return the same sequence.
C15_Idempotent ==
    Len(loaded) >= 2 => loaded[2] = loaded[1]

\* ----------------------------------------------------------------- C11
\* C11: a configuration whose targets list is empty or missing makes the
\* constructor raise at once: no engine, no flags read, no task, no
\* request; and an engine that reaches get_flags or submit_all has at
\* least one target.
C11_NoTargetsNoEngine ==
    /\ Get(config_data, "targets", << >>) = << >> =>
           /\ mpc \in {"start", "exited"}
           /\ mpc = "exited" => (exit_code = 1 /\ caught = "ValueError")
           /\ EngineOff
           /\ loaded = << >>
    /\ (mpc \in {"get_flags", "submit_all"} \/ pc # "off") =>
           /\ Len(targets) >= 1
           /\ targets = config_data.targets

C11_Witness ==
    /\ "targets" \in DOMAIN config_data
    /\ config_data.targets = << >>
    /\ mpc = "exited"
    /\ exit_code = 1
    /\ futures = << >>

\* ----------------------------------------------------------------- C13
\* C13: with at least one well-formed target the process ends with status
\* 0 when no valid flag was found (nothing submitted) and when every
\* attempt of every task failed (statistics printed); status 1 is given
\* only when an exception reached main's except clause.
WellFormedTarget ==
    \E n \in 1..Len(Get(config_data, "targets", << >>)) :
        config_data.targets[n].complete

C13_ExitStatus ==
    mpc = "exited" =>
        /\ exit_code \in {0, 1}
        /\ (exit_code = 1) = (caught # "none")
        /\ WellFormedTarget =>
               /\ caught \in {"none", "OSError"}
               /\ flags = << >> =>
                      (exit_code = 0 /\ futures = << >> /\ summary = << >>)
               /\ (flags # << >> /\ caught = "none") =>
                      /\ exit_code = 0
                      /\ Len(ret) >= 1
                      /\ summary = <<SuccessCount(ret), Len(ret)>>
                      /\ (\A t \in TaskIds : futures[t].respAt = 0) =>
                             summary[1] = 0

C13_Witness ==
    /\ mpc = "exited"
    /\ WellFormedTarget
    /\ exit_code = 0
    /\ max_retries = 2
    /\ Len(flags) = 2
    /\ \A t \in TaskIds : AllAttemptsFailed(t) /\ futures[t].posts = 2
    /\ summary = <<0, 2>>

====
